---- MODULE Spec2Model ----
(***************************************************************************)
(* order-stat: kth / kth_by (Floyd-Rivest SELECT, src/src/floyd_rivest.rs) *)
(* and median_of_medians / median_of_medians_by with its five-element      *)
(* network median5 (src/src/mom.rs), entry points in src/src/lib.rs.       *)
(*                                                                         *)
(* Elements are objects with an identity (0 .. n-1: the position the       *)
(* element held when the call started) and a key; the comparator orders    *)
(* elements by key, so distinct elements may compare Equal (a total        *)
(* pre-order).  Positions are zero-based as in the source; `array` maps    *)
(* positions to element identities.                                        *)
(***************************************************************************)
EXTENDS Integers, FiniteSets, Sequences, TLC

\* ------------------------------------------------------------------ bounds
\* longest slice handed to kth / kth_by
MaxLen == 5
\* longest slice handed to median_of_medians
MaxMomLen == 9
\* keys range over 0 .. MaxKey for kth / kth_by
MaxKey == 2
\* keys range over 0 .. MaxMomKey for median_of_medians
MaxMomKey == 1
\* keys range over 0 .. Max5Key for median5
Max5Key == 4
\* width of usize in bits
UsizeBits == 16

\* --------------------------------------------------------------- constants
\* floyd_rivest.rs: const A: usize = 600
A == 600

UsizeMax == 2 ^ UsizeBits - 1

VARIABLES
    key,        \* key[e]: the key of element e (elements never change)
    array,      \* array[p]: the element now at position p of the caller's slice
    op,         \* the public entry point called
    karg,       \* the k the caller passed (kth, kth_by)
    wrapping,   \* TRUE once an overflow wrapped: the build has overflow checks off
    pc,         \* position in the code
    cont,       \* where the running kth_by call returns to
    base, len,  \* the slice select works on is array[base .. base+len-1]
    k,          \* select's k (relative to base)
    left, right, i, j, t_idx,   \* select_'s locals (relative to base)
    stack,      \* <<left, right>> of the select_ calls waiting for a recursive call
    mi,         \* median_of_medians_by: the loop index i
    elem,       \* position the reference returned by kth / kth_by points to
    ret_idx,    \* the index median_of_medians_by (or median5) returns
    m5_cmps     \* calls of cmp the last median5 made

vars == <<key, array, op, karg, wrapping, pc, cont, base, len, k,
          left, right, i, j, t_idx, stack, mi, elem, ret_idx, m5_cmps>>

None == -1

ALen(a) == Cardinality(DOMAIN a)

\* mutant: the second store of the swap is lost, a[y] is copied over a[x]
SwapOverwrites(a, x, y) == [a EXCEPT ![x] = a[y]]

\* slice::swap on positions x, y (absolute)
Swap(a, x, y) == [a EXCEPT ![x] = a[y], ![y] = a[x]]

\* the comparator: Ord::cmp on the keys (lib.rs:166), or the closure given to
\* kth_by / median_of_medians_by
Cmp(kf, a, b) ==
    IF kf[a] < kf[b] THEN "Less"
    ELSE IF kf[a] > kf[b] THEN "Greater"
    ELSE "Equal"

\* usize arithmetic: the exact result x overflows when it leaves 0 .. UsizeMax;
\* with overflow checks off it wraps
Overflows(x) == x < 0 \/ x > UsizeMax
Wrap(x) == x % (UsizeMax + 1)
\* usize::saturating_sub(1)
SaturatingSub1(x) == IF x = 0 THEN 0 ELSE x - 1
Max(a, b) == IF a >= b THEN a ELSE b
Min(a, b) == IF a <= b THEN a ELSE b

\* what an overflowing operation may do: panic (overflow checks on) or wrap
\* (overflow checks off); a build that has wrapped once wraps again
OverflowOutcomes == IF wrapping THEN {"wrap"} ELSE {"panic", "wrap"}

\* ------------------------------------------------------------------- inputs
\* every slice of at most maxlen elements with keys in 0 .. maxkey
Keyings(maxlen, maxkey) == UNION {[0 .. n - 1 -> 0 .. maxkey] : n \in 0 .. maxlen}
Identity(n) == [p \in 0 .. n - 1 |-> p]

\* the state before the entry point's first statement
Fresh ==
    /\ array = Identity(ALen(key))
    /\ wrapping = FALSE
    /\ pc = "start"
    /\ cont = "none"
    /\ base = 0 /\ len = 0 /\ k = 0
    /\ left = 0 /\ right = 0 /\ i = 0 /\ j = 0 /\ t_idx = 0
    /\ stack = <<>>
    /\ mi = 0
    /\ elem = None
    /\ ret_idx = None
    /\ m5_cmps = 0

\* a call of kth or kth_by: any slice, any k (valid, just past the end, far
\* past the end)
InitKth ==
    /\ key \in Keyings(MaxLen, MaxKey)
    /\ op \in {"kth", "kth_by"}
    /\ karg \in 0 .. ALen(key) + 1 \cup {UsizeMax}
    /\ Fresh

\* a call of median_of_medians / median_of_medians_by: any slice
InitMom ==
    /\ key \in Keyings(MaxMomLen, MaxMomKey)
    /\ op = "mom"
    /\ karg = 0
    /\ Fresh

Init == InitKth \/ InitMom

\* ------------------------------------------------------- lib.rs: kth, kth_by
\* kth: assert!(k < array.len()), then floyd_rivest::select(array, k, Ord::cmp)
Kth ==
    /\ pc = "start" /\ op = "kth"
    /\ IF karg < ALen(array)
       THEN /\ pc' = "select"
            /\ base' = 0 /\ len' = ALen(array) /\ k' = karg /\ cont' = "kth"
       ELSE /\ pc' = "panic"
            /\ UNCHANGED <<base, len, k, cont>>
    /\ UNCHANGED <<key, m5_cmps, array, op, karg, wrapping, left, right, i, j, t_idx,
                   stack, mi, elem, ret_idx>>

\* kth_by: floyd_rivest::select(array, k, cmp) with no check of k
KthBy ==
    /\ pc = "start" /\ op = "kth_by"
    /\ pc' = "select"
    /\ base' = 0 /\ len' = ALen(array) /\ k' = karg /\ cont' = "kth"
    /\ UNCHANGED <<key, m5_cmps, array, op, karg, wrapping, left, right, i, j, t_idx,
                   stack, mi, elem, ret_idx>>

\* kth / kth_by after select returned: &mut array[k]
KthIndex ==
    /\ pc = "index"
    /\ IF k < len
       THEN /\ elem' = base + k
            /\ pc' = IF cont = "kth" THEN "done" ELSE cont
       ELSE /\ pc' = "panic"
            /\ UNCHANGED elem
    /\ UNCHANGED <<key, m5_cmps, array, op, karg, wrapping, cont, base, len, k,
                   left, right, i, j, t_idx, stack, mi, ret_idx>>

\* ------------------------------------------------- floyd_rivest.rs: select
\* select: let r = array.len() - 1; select_(array, &mut f, 0, r, k)
Select ==
    /\ pc = "select"
    /\ IF Overflows(len - 1)
       THEN \E o \in OverflowOutcomes :
                IF o = "panic"
                THEN pc' = "panic" /\ UNCHANGED <<left, right, wrapping>>
                ELSE /\ pc' = "loop"
                     /\ left' = 0 /\ right' = Wrap(len - 1)
                     /\ wrapping' = TRUE
       ELSE /\ pc' = "loop"
            /\ left' = 0 /\ right' = len - 1
            /\ UNCHANGED wrapping
    /\ UNCHANGED <<key, m5_cmps, array, op, karg, cont, base, len, k, i, j, t_idx,
                   stack, mi, elem, ret_idx>>

\* select_: `while right > left` is false: the call returns, to the select_
\* that called it (which goes on at line 36) or to kth / kth_by
SelectReturn ==
    /\ pc = "loop" /\ ~(right > left)
    /\ IF stack # <<>>
       THEN /\ left' = Head(stack)[1] /\ right' = Head(stack)[2]
            /\ stack' = Tail(stack)
            /\ pc' = "partition"
       ELSE /\ pc' = "index"
            /\ UNCHANGED <<left, right, stack>>
    /\ UNCHANGED <<key, m5_cmps, array, op, karg, wrapping, cont, base, len, k,
                   i, j, t_idx, mi, elem, ret_idx>>

\* the two `as usize` casts of lines 30-31, (inner, inner + s), for a range of
\* n elements.  n = 0 (right - left + 1 wrapped): ln(0) = -inf, s = 0.5*exp(-inf)
\* = 0, sn = 0/0 = NaN, so inner is NaN and both casts give 0.  For n > A the
\* f32 values are not computed here: any pair of usize values is allowed.
SampleCasts(n) ==
    IF n = 0 THEN {<<0, 0>>} ELSE (0 .. UsizeMax) \X (0 .. UsizeMax)

\* select_ lines 20-34: the range is longer than A; select_ calls itself on
\* [new_left, new_right] first
Sample ==
    /\ pc = "loop" /\ right > left /\ right - left > A
    /\ LET ovf == \/ Overflows(right - left + 1)
                  \/ Overflows(k - left)
                  \/ Overflows(Wrap(k - left) + 1)
           n == Wrap(right - left + 1)
           Go == \E c \in SampleCasts(n) :
                    /\ left' = Max(left, c[1])
                    /\ right' = Min(right, c[2])
                    /\ stack' = <<<<left, right>>>> \o stack
                    /\ pc' = "loop"
       IN  IF ovf
           THEN \E o \in OverflowOutcomes :
                    IF o = "panic"
                    THEN /\ pc' = "panic"
                         /\ UNCHANGED <<left, right, stack, wrapping>>
                    ELSE Go /\ wrapping' = TRUE
           ELSE Go /\ UNCHANGED wrapping
    /\ UNCHANGED <<key, m5_cmps, array, op, karg, cont, base, len, k, i, j, t_idx,
                   mi, elem, ret_idx>>

\* mutant: the two ends are compared and swapped before array.swap(left, k)
\* checks k
PivotComparesEndsFirst ==
    /\ \/ pc = "partition"
       \/ pc = "loop" /\ right > left /\ ~(right - left > A)
    /\ i' = left + 1
    /\ j' = right - 1
    /\ IF left >= len \/ right >= len
       THEN pc' = "panic" /\ UNCHANGED <<array, t_idx>>
       ELSE LET ends == Cmp(key, array[base + left], array[base + right]) # "Less"
                a1 == IF ends THEN Swap(array, base + left, base + right) ELSE array
            IN  IF k >= len
                THEN pc' = "panic" /\ array' = a1 /\ UNCHANGED t_idx
                ELSE /\ pc' = "scan_i"
                     /\ array' = Swap(a1, base + left, base + k)
                     /\ t_idx' = IF ends THEN right ELSE left
    /\ UNCHANGED <<key, m5_cmps, op, karg, wrapping, cont, base, len, k, left, right,
                   stack, mi, elem, ret_idx>>

\* select_ lines 36-44: i, j, array.swap(left, k) and the choice of the pivot
\* position t_idx.  slice::swap and array[..] check their indices.
Pivot ==
    /\ \/ pc = "partition"
       \/ pc = "loop" /\ right > left /\ ~(right - left > A)
    /\ i' = left + 1
    /\ j' = right - 1
    /\ IF left >= len \/ k >= len
       THEN pc' = "panic" /\ UNCHANGED <<array, t_idx>>
       ELSE LET a1 == Swap(array, base + left, base + k)
            IN  IF right >= len
                THEN pc' = "panic" /\ array' = a1 /\ UNCHANGED t_idx
                ELSE /\ pc' = "scan_i"
                     /\ IF Cmp(key, a1[base + left], a1[base + right]) # "Less"
                        THEN /\ array' = Swap(a1, base + left, base + right)
                             /\ t_idx' = right
                        ELSE /\ array' = a1
                             /\ t_idx' = left
    /\ UNCHANGED <<key, m5_cmps, op, karg, wrapping, cont, base, len, k, left, right,
                   stack, mi, elem, ret_idx>>

\* `while cmp(&*arr_ptr.add(i), t) == Less { i += 1 }`: one evaluation of the
\* condition.  Reading past the slice is undefined behaviour.
ScanUp(here, next) ==
    /\ pc = here
    /\ IF i >= len
       THEN pc' = "ub" /\ UNCHANGED i
       ELSE IF Cmp(key, array[base + i], array[base + t_idx]) = "Less"
            THEN i' = i + 1 /\ UNCHANGED pc
            ELSE pc' = next /\ UNCHANGED i
    /\ UNCHANGED <<key, m5_cmps, array, op, karg, wrapping, cont, base, len, k,
                   left, right, j, t_idx, stack, mi, elem, ret_idx>>

\* `while cmp(&*arr_ptr.add(j), t) == Greater { j -= 1 }`: one evaluation of
\* the condition; when it is false the `i < j` test that follows decides where
\* to go (first: the `if` of line 62 with its assert; after: the `while` of
\* line 72)
ScanDown(here, first) ==
    /\ pc = here
    /\ IF j >= len
       THEN pc' = "ub" /\ UNCHANGED <<j, wrapping>>
       ELSE IF Cmp(key, array[base + j], array[base + t_idx]) = "Greater"
            THEN IF Overflows(j - 1)
                 THEN \E o \in OverflowOutcomes :
                          IF o = "panic"
                          THEN pc' = "panic" /\ UNCHANGED <<j, wrapping>>
                          ELSE /\ j' = Wrap(j - 1) /\ wrapping' = TRUE
                               /\ UNCHANGED pc
                 ELSE j' = j - 1 /\ UNCHANGED <<pc, wrapping>>
            ELSE /\ pc' = IF i < j
                          THEN IF first /\ ~(j < len) THEN "panic" ELSE "swap"
                          ELSE "place"
                 /\ UNCHANGED <<j, wrapping>>
    /\ UNCHANGED <<key, m5_cmps, array, op, karg, cont, base, len, k,
                   left, right, i, t_idx, stack, mi, elem, ret_idx>>

\* lines 54-56
ScanI == ScanUp("scan_i", "scan_j")
\* lines 57-59 and the test of line 62
ScanJ == ScanDown("scan_j", TRUE)
\* lines 76-78
ScanI2 == ScanUp("scan_i2", "scan_j2")
\* lines 79-81 and the test of line 72
ScanJ2 == ScanDown("scan_j2", FALSE)

\* lines 73-75: ptr::swap(arr_ptr.add(i), arr_ptr.add(j)); i += 1; j -= 1
SwapStep ==
    /\ pc = "swap"
    /\ IF i >= len \/ j >= len
       THEN pc' = "ub" /\ UNCHANGED <<array, i, j>>
       ELSE /\ array' = Swap(array, base + i, base + j)
            /\ i' = i + 1
            /\ j' = j - 1
            /\ pc' = "scan_i2"
    /\ UNCHANGED <<key, m5_cmps, op, karg, wrapping, cont, base, len, k, left, right,
                   t_idx, stack, mi, elem, ret_idx>>

\* mutant: the `j += 1` of line 89 forgotten
BoundaryNoIncrement(l, t, jj) == jj
\* mutant: line 92 as `if j < k`
NarrowLeftStrict(l, kk, jj) == IF jj < kk THEN jj + 1 ELSE l
\* mutant: line 96 without the `- 1`, the boundary stays in the range
NarrowRightKeepsBoundary(r, kk, jj) == IF kk <= jj THEN jj ELSE r

\* the boundary j after line 86-91: j itself when the pivot sits at left,
\* j + 1 when it sits at right
Boundary(l, t, jj) == IF l = t THEN jj ELSE jj + 1
\* lines 92-94
NarrowLeft(l, kk, jj) == IF jj <= kk THEN jj + 1 ELSE l
\* lines 95-97
NarrowRight(r, kk, jj) == IF kk <= jj THEN SaturatingSub1(jj) ELSE r

\* lines 86-97: the pivot is swapped to the boundary and the range narrowed
Place ==
    /\ pc = "place"
    /\ LET b == Boundary(left, t_idx, j)
           from == IF left = t_idx THEN left ELSE right
       IN  IF Overflows(b) \/ from >= len \/ b >= len
           THEN pc' = "panic" /\ UNCHANGED <<array, j, left, right>>
           ELSE /\ array' = Swap(array, base + from, base + b)
                /\ j' = b
                /\ left' = NarrowLeft(left, k, b)
                /\ right' = NarrowRight(right, k, b)
                /\ pc' = "loop"
    /\ UNCHANGED <<key, m5_cmps, op, karg, wrapping, cont, base, len, k, i, t_idx,
                   stack, mi, elem, ret_idx>>

SelectStep ==
    \/ Select \/ SelectReturn \/ Sample \/ Pivot
    \/ ScanI \/ ScanJ \/ ScanI2 \/ ScanJ2 \/ SwapStep \/ Place
    \/ KthIndex

NextKth == Kth \/ KthBy \/ SelectStep

SpecKth == InitKth /\ [][NextKth]_vars

\* ------------------------------------------------------------ mom.rs: median5
\* mutant: the seventh pair written a4, a2 instead of a4, a1
Median5PairsTypo ==
    << <<1, 0>>, <<2, 0>>, <<3, 0>>, <<4, 0>>,
       <<2, 1>>, <<3, 1>>, <<4, 2>>,
       <<3, 2>>, <<4, 2>> >>

\* the pairs ($a, $b) of the cmp! invocation, lines 105-115, in order
Median5Pairs ==
    << <<1, 0>>, <<2, 0>>, <<3, 0>>, <<4, 0>>,
       <<2, 1>>, <<3, 1>>, <<4, 1>>,
       <<3, 2>>, <<4, 2>> >>

\* one `if cmp($a, $b) == Less { mem::swap(&mut $a, &mut $b) }`: r maps the
\* reference variables a0 .. a4 to the slice positions they point to, s is the
\* slice (position -> element)
CmpSwap(kf, s, r, pr) ==
    IF Cmp(kf, s[r[pr[1]]], s[r[pr[2]]]) = "Less"
    THEN [r EXCEPT ![pr[1]] = r[pr[2]], ![pr[2]] = r[pr[1]]]
    ELSE r

\* the state after the first n pairs: the references and the number of calls
\* of cmp made
RECURSIVE Median5Run(_, _, _)
Median5Run(kf, s, n) ==
    IF n = 0
    THEN [refs |-> [x \in 0 .. 4 |-> x], cmps |-> 0]
    ELSE LET before == Median5Run(kf, s, n - 1)
         IN  [refs |-> CmpSwap(kf, s, before.refs, Median5Pairs[n]),
              cmps |-> before.cmps + 1]

\* median5 (lines 81-122) on the five-element slice s: the position a2 points
\* to in the end (elements are not zero-sized)
Median5(kf, s) == Median5Run(kf, s, Len(Median5Pairs)).refs[2]

\* the slice &array[start .. start + 5], positions 0 .. 4
Slice5(a, start) == [x \in 0 .. 4 |-> a[start + x]]

\* median5 called on a slice of exactly five elements (debug_assert of line 87)
InitMedian5 ==
    /\ key \in [0 .. 4 -> 0 .. Max5Key]
    /\ op = "median5"
    /\ karg = 0
    /\ Fresh

\* median5 (lines 81-122), the whole call: the slice is borrowed immutably
Median5Call ==
    /\ pc = "start" /\ op = "median5"
    /\ LET run == Median5Run(key, Slice5(array, 0), Len(Median5Pairs))
       IN  /\ ret_idx' = run.refs[2]
           /\ m5_cmps' = run.cmps
    /\ pc' = "done"
    /\ UNCHANGED <<key, array, op, karg, wrapping, cont, base, len, k,
                   left, right, i, j, t_idx, stack, mi, elem>>

SpecMedian5 == InitMedian5 /\ [][Median5Call]_vars

\* ---------------------------------------------- mom.rs: median_of_medians_by
\* line 60
NumMedians(n) == (n + 4) \div 5

\* lines 56-60: fewer than five elements go to kth_by(array, len / 2, cmp)
\* (median_of_medians is median_of_medians_by with Ord::cmp)
MedianOfMediansBy ==
    /\ pc = "start" /\ op = "mom"
    /\ IF ALen(array) < 5
       THEN /\ pc' = "select"
            /\ base' = 0 /\ len' = ALen(array) /\ k' = ALen(array) \div 2
            /\ cont' = "mom_small"
            /\ UNCHANGED mi
       ELSE /\ pc' = "mom_loop"
            /\ mi' = 0
            /\ UNCHANGED <<base, len, k, cont>>
    /\ UNCHANGED <<key, m5_cmps, array, op, karg, wrapping, left, right, i, j, t_idx,
                   stack, elem, ret_idx>>

\* lines 61-76, one iteration for a full group: idx = start + median5(..),
\* array.swap(i, idx)
MomGroup ==
    /\ pc = "mom_loop" /\ mi < NumMedians(ALen(array))
    /\ LET start == 5 * mi
           trailing == ALen(array) - start
       IN  /\ ~(trailing < 5)
           /\ array' = Swap(array, mi, start + Median5(key, Slice5(array, start)))
           /\ m5_cmps' = Median5Run(key, Slice5(array, start), Len(Median5Pairs)).cmps
    /\ mi' = mi + 1
    /\ UNCHANGED <<key, op, karg, wrapping, pc, cont, base, len, k,
                   left, right, i, j, t_idx, stack, elem, ret_idx>>

\* lines 61-65, the short trailing group: kth_by(&mut array[start..],
\* trailing / 2, &mut cmp)
MomTrailing ==
    /\ pc = "mom_loop" /\ mi < NumMedians(ALen(array))
    /\ LET start == 5 * mi
           trailing == ALen(array) - start
       IN  /\ trailing < 5
           /\ base' = start /\ len' = trailing /\ k' = trailing \div 2
    /\ cont' = "mom_trailing"
    /\ pc' = "select"
    /\ UNCHANGED <<key, m5_cmps, array, op, karg, wrapping, left, right, i, j, t_idx,
                   stack, mi, elem, ret_idx>>

\* mutant: the reference is turned into an index relative to the trailing
\* slice, not to the whole array
MomTrailingSwapSliceIndex ==
    /\ pc = "mom_trailing"
    /\ array' = Swap(array, mi, elem - base)
    /\ mi' = mi + 1
    /\ pc' = "mom_loop"
    /\ UNCHANGED <<key, m5_cmps, op, karg, wrapping, cont, base, len, k,
                   left, right, i, j, t_idx, stack, elem, ret_idx>>

\* lines 65-75 after kth_by returned: the reference becomes an index into the
\* whole array, (elem - array.as_ptr()) / size_of::<T>(), and array.swap(i, idx)
MomTrailingSwap ==
    /\ pc = "mom_trailing"
    /\ array' = Swap(array, mi, elem)
    /\ mi' = mi + 1
    /\ pc' = "mom_loop"
    /\ UNCHANGED <<key, m5_cmps, op, karg, wrapping, cont, base, len, k,
                   left, right, i, j, t_idx, stack, elem, ret_idx>>

\* lines 77-78: kth_by(&mut array[..num_medians], num_medians / 2, cmp)
MomSelect ==
    /\ pc = "mom_loop" /\ ~(mi < NumMedians(ALen(array)))
    /\ base' = 0 /\ len' = NumMedians(ALen(array))
    /\ k' = NumMedians(ALen(array)) \div 2
    /\ cont' = "mom_final"
    /\ pc' = "select"
    /\ UNCHANGED <<key, m5_cmps, array, op, karg, wrapping, left, right, i, j, t_idx,
                   stack, mi, elem, ret_idx>>

\* mutant: the index returned is num_medians, not num_medians / 2
MomReturnUnhalved ==
    /\ pc \in {"mom_small", "mom_final"}
    /\ ret_idx' = IF pc = "mom_small"
                  THEN ALen(array) \div 2
                  ELSE NumMedians(ALen(array))
    /\ pc' = "done"
    /\ UNCHANGED <<key, m5_cmps, array, op, karg, wrapping, cont, base, len, k,
                   left, right, i, j, t_idx, stack, mi, elem>>

\* lines 58 and 78: the pair (median, reference) or (idx, reference) returned
MomReturn ==
    /\ pc \in {"mom_small", "mom_final"}
    /\ ret_idx' = IF pc = "mom_small"
                  THEN ALen(array) \div 2
                  ELSE NumMedians(ALen(array)) \div 2
    /\ pc' = "done"
    /\ UNCHANGED <<key, m5_cmps, array, op, karg, wrapping, cont, base, len, k,
                   left, right, i, j, t_idx, stack, mi, elem>>

MomStep ==
    \/ MedianOfMediansBy \/ MomGroup \/ MomTrailing \/ MomTrailingSwap
    \/ MomSelect \/ MomReturn

NextMom == MomStep \/ SelectStep

SpecMom == InitMom /\ [][NextMom]_vars

Next == Kth \/ KthBy \/ MomStep \/ SelectStep

Spec == Init /\ [][Next]_vars

\* ------------------------------------------------------------------ claims
\* what sorting by the comparator would put at position p: the key v with at
\* most p keys below it and more than p keys not above it
LessCount(kf, v) == Cardinality({e \in DOMAIN kf : kf[e] < v})
LeqCount(kf, v) == Cardinality({e \in DOMAIN kf : kf[e] <= v})
GreaterCount(kf, v) == Cardinality({e \in DOMAIN kf : kf[e] > v})
GeqCount(kf, v) == Cardinality({e \in DOMAIN kf : kf[e] >= v})
SortedKey(kf, p) ==
    CHOOSE v \in {kf[e] : e \in DOMAIN kf} :
        LessCount(kf, v) <= p /\ p < LeqCount(kf, v)

KthCall == op \in {"kth", "kth_by"}
ValidK == karg < ALen(key)
KthDone == KthCall /\ pc = "done"

\* C1: a call of kth / kth_by with a valid k does not fail, and when it
\* returns, the returned element and the element at position k both equal
\* (compare Equal to) what sorting the original sequence would put at
\* position k.
C1_KthIsOrderStatistic ==
    /\ KthCall /\ ValidK => pc \notin {"panic", "ub"}
    /\ KthDone =>
        /\ ValidK
        /\ elem \in DOMAIN array
        /\ key[array[elem]] = SortedKey(key, karg)
        /\ key[array[karg]] = SortedKey(key, karg)

\* a call that had to move elements to put an inner order statistic in place
C1_Witness ==
    /\ KthDone
    /\ ALen(array) >= 4
    /\ karg > 0 /\ karg < ALen(array) - 1
    /\ array[karg] # karg
    /\ Cardinality({key[e] : e \in DOMAIN key}) >= 3

\* C2: when kth / kth_by returns for a valid k, no element before position k
\* compares greater than the one at k and no element after position k
\* compares less than it.
C2_Partitioned ==
    KthDone =>
        \A p \in DOMAIN array :
            /\ p < karg => Cmp(key, array[p], array[karg]) # "Greater"
            /\ p > karg => Cmp(key, array[p], array[karg]) # "Less"

\* a returned call with elements on both sides of k, some of them tied with it
C2_Witness ==
    /\ KthDone
    /\ karg > 0 /\ karg < ALen(array) - 1
    /\ \E p \in DOMAIN array : p < karg /\ key[array[p]] < key[array[karg]]
    /\ \E p \in DOMAIN array : p > karg /\ key[array[p]] = key[array[karg]]
    /\ array # Identity(ALen(array))

MomDone == op = "mom" /\ pc = "done"
\* the key of the element median_of_medians returned
MomKey == key[array[elem]]

\* C3: the element median_of_medians returns lies between the 30th and 70th
\* percentiles: at most 70% of the elements compare less than it and at most
\* 70% compare greater than it.
C3_Within30And70Percent ==
    MomDone =>
        /\ 10 * LessCount(key, MomKey) <= 7 * ALen(key)
        /\ 10 * GreaterCount(key, MomKey) <= 7 * ALen(key)

\* C4: with T the sorted sequence, T[floor(0.3*(n-1))] <= m <=
\* T[min(ceil(0.7*(n-1)), n-1)] for the element m median_of_medians returns.
C4_SortedIndexBound ==
    MomDone =>
        LET n == ALen(key)
        IN  /\ SortedKey(key, (3 * (n - 1)) \div 10) <= MomKey
            /\ MomKey <= SortedKey(key, Min((7 * (n - 1) + 9) \div 10, n - 1))

\* C5: the bound the tests of mom.rs check, with s the sorted sequence:
\* s[(3*n) div 10] <= m <= s[min((7*n + 9) div 10, n - 1)].
C5_TestBound ==
    MomDone =>
        LET n == ALen(key)
        IN  /\ SortedKey(key, (3 * n) \div 10) <= MomKey
            /\ MomKey <= SortedKey(key, Min((7 * n + 9) \div 10, n - 1))

\* an argument the documentation rules out: k past the end for kth / kth_by,
\* an empty slice for median_of_medians
InvalidInput ==
    \/ KthCall /\ ~ValidK
    \/ op = "mom" /\ ALen(key) = 0

\* no position holds another element than before the call
Untouched == array = Identity(ALen(key))

\* how many steps a call with invalid input may still take before it panics
FailRank ==
    CASE pc = "start" -> 7
      [] pc = "select" -> 6
      [] pc = "loop" /\ stack = <<>> -> 5
      [] pc = "loop" /\ stack # <<>> -> 4
      [] pc = "partition" -> 3
      [] pc = "index" -> 1
      [] pc = "panic" -> 0
      [] OTHER -> 8

\* C6: a call with invalid input (kth / kth_by with k >= len, median_of_medians
\* on an empty slice) ends in a panic and never returns: every step it takes
\* leaves the slice as it was, it is never stuck before the panic, and each
\* step brings the panic nearer.
C6_InvalidInputPanicsUntouched ==
    /\ [](InvalidInput =>
            /\ Untouched
            /\ pc \in {"start", "select", "loop", "partition", "index", "panic"}
            /\ pc = "panic" \/ ENABLED Next)
    /\ [][InvalidInput => FailRank' < FailRank]_vars

\* kth_by with k past the end of a slice of two or more elements has panicked
\* (inside select_, at array.swap(left, k))
C6_Witness ==
    /\ InvalidInput
    /\ pc = "panic"
    /\ op = "kth_by"
    /\ ALen(key) >= 2
    /\ right > left

\* C7: on a non-empty slice median_of_medians does not fail, and it returns
\* (idx, m) with idx < len and m the element at position idx of the slice as
\* the call left it.
C7_IndexNamesReturnedElement ==
    /\ op = "mom" /\ ALen(key) > 0 => pc \notin {"panic", "ub"}
    /\ MomDone =>
        /\ ret_idx \in DOMAIN array
        /\ elem \in DOMAIN array
        /\ array[ret_idx] = array[elem]

\* a returned call on a slice with a trailing group, that moved elements
C7_Witness ==
    /\ MomDone
    /\ ALen(key) >= 6
    /\ ret_idx > 0
    /\ array[ret_idx] # ret_idx

\* C9: at every step of every operation the slice is a permutation of what
\* it was before the call: the same positions, every element exactly once.
C9_AlwaysPermutation ==
    /\ DOMAIN array = DOMAIN key
    /\ \A e \in DOMAIN key : Cardinality({p \in DOMAIN array : array[p] = e}) = 1

\* in the middle of the swap loop of a selection inside median_of_medians,
\* with elements already moved
C9_Witness ==
    /\ op = "mom"
    /\ pc = "scan_i2"
    /\ ~Untouched

ValidKthCall == KthCall /\ ValidK

\* every index select is about to read, compare or swap at lies in the slice,
\* and the scans stay inside [left, right]
SelectInBounds ==
    /\ pc \notin {"ub", "panic"}
    /\ stack = <<>>
    /\ pc \in {"loop", "scan_i", "scan_j", "swap", "scan_i2", "scan_j2", "place"}
         => k < len
    /\ pc = "loop" /\ right > left => right < len
    /\ pc \in {"scan_i", "scan_j", "swap", "scan_i2", "scan_j2", "place"}
         => left < right /\ right < len /\ t_idx \in {left, right}
    /\ pc \in {"scan_i", "scan_i2"} => left < i /\ i <= right
    /\ pc \in {"scan_j", "scan_j2"} => left <= j /\ j < right
    /\ pc = "swap" => left < i /\ i < j /\ j < right
    /\ pc = "place" =>
         /\ Boundary(left, t_idx, j) >= left
         /\ Boundary(left, t_idx, j) <= right

\* a measure of the work select has left: the width of the range, then within
\* one iteration the distance the scans can still cover, then the phase
RankW == 8 * ALen(key) + 5
RangeWidth == IF right > left THEN right - left ELSE 0
Phase ==
    CASE pc \in {"scan_i", "scan_i2"} -> 3
      [] pc \in {"scan_j", "scan_j2"} -> 2
      [] pc = "swap" -> 1
      [] OTHER -> 0
SelectRank ==
    CASE pc = "done" -> 0
      [] pc = "index" -> 1
      [] pc = "loop" -> 2 + RankW * RangeWidth + (RankW - 1)
      [] pc \in {"scan_i", "scan_j", "swap", "scan_i2", "scan_j2", "place"} ->
            2 + RankW * RangeWidth + 4 * ((ALen(key) - i) + j) + Phase
      [] pc = "select" -> 2 + RankW * (ALen(key) + 1)
      [] pc = "start" -> 3 + RankW * (ALen(key) + 1)
      [] OTHER -> 4 + RankW * (ALen(key) + 1)

\* C8: for a non-empty slice (repeated and all-equal keys included) and a
\* valid k the selection terminates and stays in bounds: every index it uses
\* is below len, i and j stay inside [left, right], the assertion of line 65
\* holds, a step is always possible until the call has returned, and every
\* step lowers a non-negative measure.
C8_SelectTerminatesInBounds ==
    /\ [](ValidKthCall =>
            /\ SelectInBounds
            /\ SelectRank >= 0
            /\ pc = "done" \/ ENABLED NextKth)
    /\ [][ValidKthCall => SelectRank' < SelectRank]_vars

\* inside the swap loop of a selection on four or more all-equal elements
C8_Witness ==
    /\ ValidKthCall
    /\ pc = "scan_j2"
    /\ ALen(key) >= 4
    /\ \A e \in DOMAIN key : key[e] = key[0]

Median5Done == op = "median5" /\ pc = "done"

\* C10: on five elements median5 returns an index in 0 .. 4 whose element is
\* the 3rd smallest (at least 3 of the five compare not-greater and at least
\* 3 not-less), after exactly 9 comparisons, and no element has moved.
C10_Median5IsMiddle ==
    Median5Done =>
        /\ ret_idx \in 0 .. 4
        /\ LeqCount(key, key[array[ret_idx]]) >= 3
        /\ GeqCount(key, key[array[ret_idx]]) >= 3
        /\ m5_cmps = 9
        /\ Untouched

\* five elements with ties on both sides of the median, which is not the
\* element the slice holds in the middle
C10_Witness ==
    /\ Median5Done
    /\ ret_idx # 2
    /\ Cardinality({key[e] : e \in DOMAIN key}) = 3
    /\ LessCount(key, key[array[ret_idx]]) = 2
    /\ GreaterCount(key, key[array[ret_idx]]) = 1

\* the elements of group g: those that held positions 5g .. min(5g+4, n-1)
\* when median_of_medians_by was called (an element is named by that position)
GroupOf(g) == {e \in DOMAIN key : 5 * g <= e /\ e <= 5 * g + 4}
\* the rank of the median within a group of r elements: the 3rd smallest of
\* a full group, r div 2 of a shorter one
GroupRank(r) == IF r = 5 THEN 2 ELSE r \div 2
\* the key of the median of group g
GroupMedianKey(g) ==
    LET kg == [e \in GroupOf(g) |-> key[e]]
    IN  SortedKey(kg, GroupRank(Cardinality(GroupOf(g))))

\* median_of_medians_by is in its per-group loop (lines 61-76), the kth_by
\* call on the trailing group included
InGroupLoop ==
    /\ op = "mom" /\ ALen(key) >= 5
    /\ pc # "start"
    /\ cont \in {"none", "mom_trailing"}
\* the loop has ended and the final kth_by has not been called
GroupLoopFinished ==
    InGroupLoop /\ pc = "mom_loop" /\ ~(mi < NumMedians(ALen(key)))

\* C11: for n >= 5, when the per-group loop of median_of_medians_by has ended,
\* position g holds for every group g in 0 .. ceil(n/5)-1 an element of group
\* g that is its median (3rd smallest of five, rank r div 2 of a trailing
\* group of r < 5), and no step of the loop changes a position below the loop
\* index, where the medians of the earlier groups are stored.
C11_GroupMediansInFront ==
    /\ [](GroupLoopFinished =>
            \A g \in 0 .. NumMedians(ALen(key)) - 1 :
                /\ array[g] \in GroupOf(g)
                /\ key[array[g]] = GroupMedianKey(g))
    /\ [][InGroupLoop => \A p \in 0 .. mi - 1 : array'[p] = array[p]]_vars

\* the loop has ended on a slice with a trailing group of two or more; both
\* medians had to be moved and they differ
C11_Witness ==
    /\ GroupLoopFinished
    /\ ALen(key) >= 7
    /\ array[0] # 0
    /\ array[1] > 5
    /\ key[array[0]] # key[array[1]]

\* select_ is at its loop guard and the guard holds: the body is entered
LoopBodyEntered == pc = "loop" /\ right > left

\* C12: in a selection on the whole slice with a valid k, left <= k <= right
\* whenever the loop body is entered; the placement and narrowing of an
\* iteration leave left no smaller and right no larger, make right - left
\* strictly smaller, and put the boundary j inside the old [left, right]; no
\* other step of the iteration changes left or right.
C12_RangeNarrowsAroundK ==
    /\ [](ValidKthCall /\ LoopBodyEntered => left <= k /\ k <= right)
    /\ [][ValidKthCall /\ pc = "place" =>
            /\ left' >= left
            /\ right' <= right
            /\ right' - left' < right - left
            /\ left <= j' /\ j' <= right]_vars
    /\ [][ValidKthCall /\ pc \in {"loop", "scan_i", "scan_j", "swap",
                                  "scan_i2", "scan_j2"} =>
            left' = left /\ right' = right]_vars

\* the body is entered again after both ends of the range have moved inward
C12_Witness ==
    /\ ValidKthCall
    /\ LoopBodyEntered
    /\ left > 0
    /\ right < len - 1
====
